---- MODULE Spec2Model ----
(***************************************************************************)
(* A model of the SCL time-of-use rate comparison tool:                    *)
(*   src/src/usage_data.rs       UsageEntry, kwh_total                     *)
(*   src/src/rate_calculator.rs  TimeOfUse, calculate_tou_cost,            *)
(*                               calculate_base_cost                       *)
(*   src/src/main.rs             TouRates::from_args, main,                *)
(*                               read_usage_data                           *)
(*                                                                         *)
(* Text is modelled as sequences of one-character strings, so that the     *)
(* prefix test, the CSV field split and the field parsers are computed on  *)
(* the characters.  A file is a sequence of lines (line terminators        *)
(* stripped).  The input alphabet has no quote characters, so CSV quoting  *)
(* never arises; a byte that is not valid UTF-8 is the character           *)
(* INVALID_BYTE.  A decimal is a BigDecimal: an integer and a scale.       *)
(***************************************************************************)
EXTENDS Integers, Sequences, FiniteSets, TLC

(* Bounds of the model. *)
MaxLines == 3
MaxEntries == 3

\* ------------------------------------------------------------------ text

IsDigit(c) == c \in {"0", "1", "2", "3", "4", "5", "6", "7", "8", "9"}

DigitVal(c) ==
    CASE c = "0" -> 0 [] c = "1" -> 1 [] c = "2" -> 2 [] c = "3" -> 3
      [] c = "4" -> 4 [] c = "5" -> 5 [] c = "6" -> 6 [] c = "7" -> 7
      [] c = "8" -> 8 [] c = "9" -> 9

AllDigits(s) == \A i \in 1..Len(s) : IsDigit(s[i])

RECURSIVE DigitsVal(_)
DigitsVal(s) ==
    IF s = <<>> THEN 0
    ELSE 10 * DigitsVal(SubSeq(s, 1, Len(s) - 1)) + DigitVal(s[Len(s)])

RECURSIVE Pow10(_)
Pow10(n) == IF n = 0 THEN 1 ELSE 10 * Pow10(n - 1)

\* str::starts_with
StartsWith(s, p) == Len(s) >= Len(p) /\ SubSeq(s, 1, Len(p)) = p

\* Position of the first occurrence of character c in s, 0 when absent.
FindChar(s, c) ==
    IF \E i \in 1..Len(s) : s[i] = c
    THEN CHOOSE i \in 1..Len(s) : s[i] = c /\ \A j \in 1..(i - 1) : s[j] # c
    ELSE 0

\* The fields of one CSV record: the line split at every comma.
RECURSIVE SplitFields(_)
SplitFields(line) ==
    LET k == FindChar(line, ",")
    IN  IF k = 0 THEN <<line>>
        ELSE <<SubSeq(line, 1, k - 1)>> \o SplitFields(SubSeq(line, k + 1, Len(line)))

RECURSIVE JoinFields(_)
JoinFields(fields) ==
    IF Len(fields) = 0 THEN <<>>
    ELSE IF Len(fields) = 1 THEN fields[1]
    ELSE fields[1] \o <<",">> \o JoinFields(Tail(fields))

\* ------------------------------------------------------------ BigDecimal

BigDecimal(i, s) == [int_val |-> i, scale |-> s]

BD_Zero == BigDecimal(0, 0)

MaxOf(a, b) == IF a >= b THEN a ELSE b

\* The integer of x when written with scale s >= x.scale.
Rescaled(x, s) == x.int_val * Pow10(s - x.scale)

BD_Add(x, y) ==
    LET s == MaxOf(x.scale, y.scale)
    IN  BigDecimal(Rescaled(x, s) + Rescaled(y, s), s)

BD_Sub(x, y) ==
    LET s == MaxOf(x.scale, y.scale)
    IN  BigDecimal(Rescaled(x, s) - Rescaled(y, s), s)

BD_Mul(x, y) == BigDecimal(x.int_val * y.int_val, x.scale + y.scale)

\* Comparison is by value, whatever the scales.
BD_Cmp(x, y) ==
    LET s == MaxOf(x.scale, y.scale)
        a == Rescaled(x, s)
        b == Rescaled(y, s)
    IN  IF a < b THEN -1 ELSE IF a > b THEN 1 ELSE 0

BD_Eq(x, y) == BD_Cmp(x, y) = 0

BD_IsNegative(x) == x.int_val < 0

\* BigDecimal::from_str: an optional sign, digits with at most one decimal
\* point, at least one digit (the exponent form is outside the alphabet).
ParseDecimal(s) ==
    LET neg    == Len(s) > 0 /\ s[1] = "-"
        signed == Len(s) > 0 /\ s[1] \in {"-", "+"}
        body   == IF signed THEN Tail(s) ELSE s
        dot    == FindChar(body, ".")
        lead   == IF dot = 0 THEN body ELSE SubSeq(body, 1, dot - 1)
        trail  == IF dot = 0 THEN <<>> ELSE SubSeq(body, dot + 1, Len(body))
        digits == lead \o trail
        mag    == DigitsVal(digits)
    IN  IF Len(digits) = 0 \/ ~AllDigits(digits)
        THEN [ok |-> FALSE, val |-> BD_Zero]
        ELSE [ok |-> TRUE,
              val |-> BigDecimal(IF neg THEN 0 - mag ELSE mag, Len(trail))]

\* ------------------------------------------------------------------ Time

Time(h, m, s) == [hour |-> h, minute |-> m, second |-> s]

\* jiff::civil::Time::from_str on the HH:MM:SS form: two digits each, hour
\* 00-23, minute 00-59, second 00-59.
ParseTime(s) ==
    LET shaped == /\ Len(s) = 8
                  /\ s[3] = ":" /\ s[6] = ":"
                  /\ \A i \in {1, 2, 4, 5, 7, 8} : IsDigit(s[i])
        h  == DigitsVal(SubSeq(s, 1, 2))
        m  == DigitsVal(SubSeq(s, 4, 5))
        sc == DigitsVal(SubSeq(s, 7, 8))
    IN  IF shaped /\ h <= 23 /\ m <= 59 /\ sc <= 59
        THEN [ok |-> TRUE, val |-> Time(h, m, sc)]
        ELSE [ok |-> FALSE, val |-> Time(0, 0, 0)]

\* ------------------------------------------------------------ UsageEntry

UsageEntry(st, et, imp, ex) ==
    [start_time |-> st, end_time |-> et, imported |-> imp, exported |-> ex]

\* kwh_total adding the export instead of subtracting it.
kwh_total_added(entry) == BD_Add(entry.imported, entry.exported)

kwh_total(entry) == BD_Sub(entry.imported, entry.exported)

\* ------------------------------------------------------------- TimeOfUse

TimeOfUse == {"Off", "Mid", "Peak"}

\* from_hour with the Mid arm written 6..=17.
from_hour_late_peak(hour) ==
    IF 0 <= hour /\ hour <= 5 THEN "Off"
    ELSE IF (6 <= hour /\ hour <= 17) \/ (21 <= hour /\ hour <= 23) THEN "Mid"
    ELSE IF 18 <= hour /\ hour <= 20 THEN "Peak"
    ELSE "Panic"

\* The match on the hour; "Panic" is the arm for an hour outside 0..23.
from_hour(hour) ==
    IF 0 <= hour /\ hour <= 5 THEN "Off"
    ELSE IF (6 <= hour /\ hour <= 16) \/ (21 <= hour /\ hour <= 23) THEN "Mid"
    ELSE IF 17 <= hour /\ hour <= 20 THEN "Peak"
    ELSE "Panic"

from_time(time) == from_hour(time.hour)

\* -------------------------------------------------------------- TouRates

TouRates(off, mid, peak) == [off |-> off, mid |-> mid, peak |-> peak]

TouLocation ==
    {"Seattle", "LakeForestPark", "NormandyPark", "Tukwila", "Renton", "Other"}

None == [some |-> FALSE, val |-> BD_Zero]
Some(v) == [some |-> TRUE, val |-> v]

NoLocation == "None"

LocationRates(location) ==
    CASE location = "Seattle" ->
            TouRates(BigDecimal(828, 4), BigDecimal(1449, 4), BigDecimal(1656, 4))
      [] location = "LakeForestPark" ->
            TouRates(BigDecimal(895, 4), BigDecimal(1565, 4), BigDecimal(1789, 4))
      [] location = "NormandyPark" ->
            TouRates(BigDecimal(881, 4), BigDecimal(1541, 4), BigDecimal(1762, 4))
      [] location = "Tukwila" ->
            TouRates(BigDecimal(886, 4), BigDecimal(1551, 4), BigDecimal(1773, 4))
      [] location = "Renton" ->
            TouRates(BigDecimal(828, 4), BigDecimal(1449, 4), BigDecimal(1656, 4))
      [] location = "Other" ->
            TouRates(BigDecimal(894, 4), BigDecimal(1565, 4), BigDecimal(1788, 4))

NoRates == TouRates(BD_Zero, BD_Zero, BD_Zero)
NoPanic == "none"

\* from_args with a missing mid-peak rate defaulting to the off-peak rate.
from_args_mid_defaulted(a) ==
    IF a.tou_location # NoLocation
    THEN [panic |-> NoPanic, rates |-> LocationRates(a.tou_location)]
    ELSE IF ~a.off_peak_rate.some
    THEN [panic |-> "off-peak rate is required", rates |-> NoRates]
    ELSE IF ~a.peak_rate.some
    THEN [panic |-> "peak rate is required", rates |-> NoRates]
    ELSE [panic |-> NoPanic,
          rates |-> TouRates(a.off_peak_rate.val,
                             IF a.mid_peak_rate.some THEN a.mid_peak_rate.val
                             ELSE a.off_peak_rate.val,
                             a.peak_rate.val)]

\* TouRates::from_args: the location's built-in triple, else the three
\* explicit rates, each expected in the order off, mid, peak.
from_args(a) ==
    IF a.tou_location # NoLocation
    THEN [panic |-> NoPanic, rates |-> LocationRates(a.tou_location)]
    ELSE IF ~a.off_peak_rate.some
    THEN [panic |-> "off-peak rate is required", rates |-> NoRates]
    ELSE IF ~a.mid_peak_rate.some
    THEN [panic |-> "mid-peak rate is required", rates |-> NoRates]
    ELSE IF ~a.peak_rate.some
    THEN [panic |-> "peak rate is required", rates |-> NoRates]
    ELSE [panic |-> NoPanic,
          rates |-> TouRates(a.off_peak_rate.val, a.mid_peak_rate.val,
                             a.peak_rate.val)]

\* ------------------------------------------------------- rate calculator

\* The closure without its assert_eq!: the start's bucket decides the rate.
tou_entry_cost_unasserted(rate, entry) ==
    LET tou_start == from_time(entry.start_time)
    IN  IF tou_start = "Panic"
        THEN [panic |-> "Invalid hour", value |-> BD_Zero]
        ELSE [panic |-> NoPanic,
              value |-> CASE tou_start = "Off"  -> BD_Mul(rate.off, kwh_total(entry))
                          [] tou_start = "Mid"  -> BD_Mul(rate.mid, kwh_total(entry))
                          [] tou_start = "Peak" -> BD_Mul(rate.peak, kwh_total(entry))]

\* The closure of calculate_tou_cost on one entry.
tou_entry_cost(rate, entry) ==
    LET tou_start == from_time(entry.start_time)
        tou_end   == from_time(entry.end_time)
    IN  IF tou_start = "Panic" \/ tou_end = "Panic"
        THEN [panic |-> "Invalid hour", value |-> BD_Zero]
        ELSE IF tou_start # tou_end
        THEN [panic |-> "Start and end times must be in the same TOU period",
              value |-> BD_Zero]
        ELSE [panic |-> NoPanic,
              value |-> CASE tou_start = "Off"  -> BD_Mul(rate.off, kwh_total(entry))
                          [] tou_start = "Mid"  -> BD_Mul(rate.mid, kwh_total(entry))
                          [] tou_start = "Peak" -> BD_Mul(rate.peak, kwh_total(entry))]

\* map(closure).sum(): entries are taken in order, the sum starts at zero,
\* and the first entry whose closure panics ends the call.
RECURSIVE tou_fold(_, _, _, _)
tou_fold(rate, usage_data, i, acc) ==
    IF i > Len(usage_data) THEN [panic |-> NoPanic, value |-> acc]
    ELSE LET c == tou_entry_cost(rate, usage_data[i])
         IN  IF c.panic # NoPanic THEN c
             ELSE tou_fold(rate, usage_data, i + 1, BD_Add(acc, c.value))

calculate_tou_cost(rate, usage_data) == tou_fold(rate, usage_data, 1, BD_Zero)

RECURSIVE base_fold(_, _, _, _)
base_fold(rate, usage_data, i, acc) ==
    IF i > Len(usage_data) THEN acc
    ELSE base_fold(rate, usage_data, i + 1,
                   BD_Add(acc, BD_Mul(rate, kwh_total(usage_data[i]))))

calculate_base_cost(rate, usage_data) == base_fold(rate, usage_data, 1, BD_Zero)

RECURSIVE kwh_fold(_, _, _)
kwh_fold(usage_data, i, acc) ==
    IF i > Len(usage_data) THEN acc
    ELSE kwh_fold(usage_data, i + 1, BD_Add(acc, kwh_total(usage_data[i])))

\* main: usage_data.iter().map(|entry| entry.kwh_total()).sum()
sum_kwh(usage_data) == kwh_fold(usage_data, 1, BD_Zero)

\* ------------------------------------------------------- read_usage_data

HEADER_PREFIX == <<"T","Y","P","E",",","D","A","T","E",",">>

ELECTRIC_USAGE == <<"E","l","e","c","t","r","i","c"," ","u","s","a","g","e">>

EXPECTED_HEADERS ==
    << <<"T","Y","P","E">>,
       <<"D","A","T","E">>,
       <<"S","T","A","R","T"," ","T","I","M","E">>,
       <<"E","N","D"," ","T","I","M","E">>,
       <<"I","M","P","O","R","T"," ","(","k","W","h",")">>,
       <<"E","X","P","O","R","T"," ","(","k","W","h",")">>,
       <<"N","O","T","E","S">> >>

\* A byte that cannot occur in UTF-8 text.
INVALID_BYTE == "<FF>"

\* The bytes decode as UTF-8: what read_line and StringRecord require.
ValidUtf8(text) == \A i \in 1..Len(text) : text[i] # INVALID_BYTE

\* The loop taking the last line with the prefix instead of the first.
RECURSIVE read_line_loop_last(_, _)
read_line_loop_last(lines, i) ==
    IF i > Len(lines)
    THEN [panic |-> "Usage file is empty or malformed", header |-> 0]
    ELSE IF ~ValidUtf8(lines[i])
    THEN [panic |-> "Failed to read line", header |-> 0]
    ELSE IF /\ StartsWith(lines[i], HEADER_PREFIX)
            /\ \A j \in (i + 1)..Len(lines) : ~StartsWith(lines[j], HEADER_PREFIX)
    THEN [panic |-> NoPanic, header |-> i]
    ELSE read_line_loop_last(lines, i + 1)

\* The read_line loop from line i: a line that is not UTF-8 fails the read,
\* end of file without a line that starts with the header prefix panics,
\* the first line with the prefix ends the loop.
RECURSIVE read_line_loop(_, _)
read_line_loop(lines, i) ==
    IF i > Len(lines)
    THEN [panic |-> "Usage file is empty or malformed", header |-> 0]
    ELSE IF ~ValidUtf8(lines[i])
    THEN [panic |-> "Failed to read line", header |-> 0]
    ELSE IF StartsWith(lines[i], HEADER_PREFIX)
    THEN [panic |-> NoPanic, header |-> i]
    ELSE read_line_loop(lines, i + 1)

\* The records the CSV reader yields for the given lines: one per line, in
\* order, of whatever field count (flexible); empty lines yield no record.
RECURSIVE CsvRecords(_)
CsvRecords(lines) ==
    IF lines = <<>> THEN <<>>
    ELSE IF Head(lines) = <<>> THEN CsvRecords(Tail(lines))
    ELSE <<SplitFields(Head(lines))>> \o CsvRecords(Tail(lines))

NoEntry == UsageEntry(Time(0, 0, 0), Time(0, 0, 0), BD_Zero, BD_Zero)
IndexPanic == "record index out of bounds"
DeserializePanic == "Usage file could not be deserialized"

\* The closure building the entry before looking at the first field.
parse_record_unfiltered(record) ==
    IF \E k \in 1..Len(record) : ~ValidUtf8(record[k])
    THEN [keep |-> TRUE, panic |-> DeserializePanic, entry |-> NoEntry]
    ELSE IF Len(record) < 3
    THEN [keep |-> TRUE, panic |-> IndexPanic, entry |-> NoEntry]
    ELSE IF ~ParseTime(record[3]).ok
    THEN [keep |-> TRUE, panic |-> "Invalid start time format", entry |-> NoEntry]
    ELSE IF Len(record) < 4
    THEN [keep |-> TRUE, panic |-> IndexPanic, entry |-> NoEntry]
    ELSE IF ~ParseTime(record[4]).ok
    THEN [keep |-> TRUE, panic |-> "Invalid end time format", entry |-> NoEntry]
    ELSE IF Len(record) < 5
    THEN [keep |-> TRUE, panic |-> IndexPanic, entry |-> NoEntry]
    ELSE IF ~ParseDecimal(record[5]).ok
    THEN [keep |-> TRUE, panic |-> "Invalid imported kWh value", entry |-> NoEntry]
    ELSE IF Len(record) < 6
    THEN [keep |-> TRUE, panic |-> IndexPanic, entry |-> NoEntry]
    ELSE IF ~ParseDecimal(record[6]).ok
    THEN [keep |-> TRUE, panic |-> "Invalid exported kWh value", entry |-> NoEntry]
    ELSE [keep |-> record[1] = ELECTRIC_USAGE, panic |-> NoPanic,
          entry |-> UsageEntry(ParseTime(record[3]).val, ParseTime(record[4]).val,
                               ParseDecimal(record[5]).val,
                               ParseDecimal(record[6]).val)]

\* The filter_map closure on one record: a record that is not UTF-8 is an
\* Err and panics; a record whose first field is not the sentinel is
\* dropped; a kept record's fields 2..5 (0-based) are indexed and parsed in
\* the order of the struct literal.
parse_record(record) ==
    IF \E k \in 1..Len(record) : ~ValidUtf8(record[k])
    THEN [keep |-> TRUE, panic |-> DeserializePanic, entry |-> NoEntry]
    ELSE IF record[1] # ELECTRIC_USAGE
    THEN [keep |-> FALSE, panic |-> NoPanic, entry |-> NoEntry]
    ELSE IF Len(record) < 3
    THEN [keep |-> TRUE, panic |-> IndexPanic, entry |-> NoEntry]
    ELSE IF ~ParseTime(record[3]).ok
    THEN [keep |-> TRUE, panic |-> "Invalid start time format", entry |-> NoEntry]
    ELSE IF Len(record) < 4
    THEN [keep |-> TRUE, panic |-> IndexPanic, entry |-> NoEntry]
    ELSE IF ~ParseTime(record[4]).ok
    THEN [keep |-> TRUE, panic |-> "Invalid end time format", entry |-> NoEntry]
    ELSE IF Len(record) < 5
    THEN [keep |-> TRUE, panic |-> IndexPanic, entry |-> NoEntry]
    ELSE IF ~ParseDecimal(record[5]).ok
    THEN [keep |-> TRUE, panic |-> "Invalid imported kWh value", entry |-> NoEntry]
    ELSE IF Len(record) < 6
    THEN [keep |-> TRUE, panic |-> IndexPanic, entry |-> NoEntry]
    ELSE IF ~ParseDecimal(record[6]).ok
    THEN [keep |-> TRUE, panic |-> "Invalid exported kWh value", entry |-> NoEntry]
    ELSE [keep |-> TRUE, panic |-> NoPanic,
          entry |-> UsageEntry(ParseTime(record[3]).val, ParseTime(record[4]).val,
                               ParseDecimal(record[5]).val,
                               ParseDecimal(record[6]).val)]

\* The collection skipping a record that cannot be parsed.
RECURSIVE collect_entries_lenient(_, _, _)
collect_entries_lenient(records, i, acc) ==
    IF i > Len(records) THEN [panic |-> NoPanic, entries |-> acc]
    ELSE LET r == parse_record(records[i])
         IN  collect_entries_lenient(records, i + 1,
                 IF r.keep /\ r.panic = NoPanic THEN Append(acc, r.entry) ELSE acc)

\* into_records().filter_map(closure).collect(): records in order; the
\* first panic ends the call and no vector is returned.
RECURSIVE collect_entries(_, _, _)
collect_entries(records, i, acc) ==
    IF i > Len(records) THEN [panic |-> NoPanic, entries |-> acc]
    ELSE LET r == parse_record(records[i])
         IN  IF r.panic # NoPanic THEN [panic |-> r.panic, entries |-> <<>>]
             ELSE collect_entries(records, i + 1,
                                  IF r.keep THEN Append(acc, r.entry) ELSE acc)

\* read_usage_data comparing only the two columns of the prefix.
read_usage_data_prefix_only(usage_csv) ==
    IF ~usage_csv.exists
    THEN [panic |-> "Usage file not found", entries |-> <<>>]
    ELSE IF ~usage_csv.readable
    THEN [panic |-> "Failed to read line", entries |-> <<>>]
    ELSE LET lines == usage_csv.lines
             scan  == read_line_loop(lines, 1)
             h     == scan.header
         IN  IF scan.panic # NoPanic
             THEN [panic |-> scan.panic, entries |-> <<>>]
             ELSE collect_entries(CsvRecords(SubSeq(lines, h + 1, Len(lines))),
                                  1, <<>>)

\* read_usage_data on a path: usage_csv.exists says whether the path opens,
\* usage_csv.readable whether it can be read at all (a directory cannot),
\* usage_csv.lines are the file's lines.  The header record is the line the
\* loop stopped at.
read_usage_data(usage_csv) ==
    IF ~usage_csv.exists
    THEN [panic |-> "Usage file not found", entries |-> <<>>]
    ELSE IF ~usage_csv.readable
    THEN [panic |-> "Failed to read line", entries |-> <<>>]
    ELSE LET lines == usage_csv.lines
             scan  == read_line_loop(lines, 1)
             h     == scan.header
         IN  IF scan.panic # NoPanic
             THEN [panic |-> scan.panic, entries |-> <<>>]
             ELSE IF ~ValidUtf8(lines[h])
             THEN [panic |-> "CSV headers not found", entries |-> <<>>]
             ELSE IF SplitFields(lines[h]) # EXPECTED_HEADERS
             THEN [panic |-> "Unexpected headers in usage CSV", entries |-> <<>>]
             ELSE collect_entries(CsvRecords(SubSeq(lines, h + 1, Len(lines))),
                                  1, <<>>)

\* ------------------------------------------------------------ the inputs

F_Date == <<"2","0","2","4","-","0","1","-","0","1">>

\* A line of export metadata, as found before the header; after the header
\* it is a two-field row of another type.
LineJunk == <<"N","a","m","e",",","J","o">>

LineHeader == JoinFields(EXPECTED_HEADERS)

\* The header with the IMPORT and EXPORT columns swapped.
LineHeaderSwapped ==
    JoinFields(<<EXPECTED_HEADERS[1], EXPECTED_HEADERS[2], EXPECTED_HEADERS[3],
                 EXPECTED_HEADERS[4], EXPECTED_HEADERS[6], EXPECTED_HEADERS[5],
                 EXPECTED_HEADERS[7]>>)

\* The header without its last three columns.
LineHeaderShort ==
    JoinFields(<<EXPECTED_HEADERS[1], EXPECTED_HEADERS[2], EXPECTED_HEADERS[3],
                 EXPECTED_HEADERS[4]>>)

\* The header with one more column.
LineHeaderLong == LineHeader \o <<",","C","O","S","T">>

\* Electric usage,2024-01-01,10:00:00,10:30:00,1.500,0.000,
LineMid ==
    JoinFields(<<ELECTRIC_USAGE, F_Date,
                 <<"1","0",":","0","0",":","0","0">>,
                 <<"1","0",":","3","0",":","0","0">>,
                 <<"1",".","5","0","0">>, <<"0",".","0","0","0">>, <<>> >>)

\* Electric usage,2024-01-01,02:00:00,03:00:00,0.5,2,   (export above import)
LineOffExport ==
    JoinFields(<<ELECTRIC_USAGE, F_Date,
                 <<"0","2",":","0","0",":","0","0">>,
                 <<"0","3",":","0","0",":","0","0">>,
                 <<"0",".","5">>, <<"2">>, <<>> >>)

\* Electric usage,2024-01-01,16:30:00,17:00:00,2,0,   (Mid to Peak)
LineStraddle ==
    JoinFields(<<ELECTRIC_USAGE, F_Date,
                 <<"1","6",":","3","0",":","0","0">>,
                 <<"1","7",":","0","0",":","0","0">>,
                 <<"2">>, <<"0">>, <<>> >>)

\* Electric usage,2024-01-01,10:00:00,10:30:00,abc,0,
LineBadImport ==
    JoinFields(<<ELECTRIC_USAGE, F_Date,
                 <<"1","0",":","0","0",":","0","0">>,
                 <<"1","0",":","3","0",":","0","0">>,
                 <<"a","b","c">>, <<"0">>, <<>> >>)

\* Electric usage,2024-01-01,18:00:00,18:30:00,-1.5,0,
LineNegImport ==
    JoinFields(<<ELECTRIC_USAGE, F_Date,
                 <<"1","8",":","0","0",":","0","0">>,
                 <<"1","8",":","3","0",":","0","0">>,
                 <<"-","1",".","5">>, <<"0">>, <<>> >>)

\* Electric usage,2024-01-01,10:00:00   (too few fields)
LineShort ==
    JoinFields(<<ELECTRIC_USAGE, F_Date, <<"1","0",":","0","0",":","0","0">> >>)

\* Gas usage,2024-01-01,25:99,,x,-,n,extra   (another type, eight fields)
LineOther ==
    JoinFields(<< <<"G","a","s"," ","u","s","a","g","e">>, F_Date,
                  <<"2","5",":","9","9">>, <<>>, <<"x">>, <<"-">>, <<"n">>,
                  <<"e","x","t","r","a">> >>)

\* Name,<FF>   (a line of bytes that are not UTF-8)
LineBinary == <<"N","a","m","e",",", INVALID_BYTE>>

LinePool ==
    {LineJunk, LineBinary, <<>>, LineHeader, LineHeaderSwapped, LineHeaderShort,
     LineHeaderLong, LineMid, LineOffExport,
     LineStraddle, LineBadImport, LineNegImport, LineShort, LineOther}

SeqsUpTo(S, n) == UNION {[1..k -> S] : k \in 0..n}

NoFile == [exists |-> FALSE, readable |-> FALSE, lines |-> <<>>]

\* A path that opens and cannot be read: a directory.
Directory == [exists |-> TRUE, readable |-> FALSE, lines |-> <<>>]

TextFile(l) == [exists |-> TRUE, readable |-> TRUE, lines |-> l]

\* The files of k lines, the path that does not open and the directory.
UsageFiles(k) ==
    {TextFile(l) : l \in [1..k -> LinePool]}
        \cup (IF k = 0 THEN {NoFile, Directory} ELSE {})

Args(loc, off, mid, peak, cur, csv) ==
    [tou_location |-> loc, off_peak_rate |-> off, mid_peak_rate |-> mid,
     peak_rate |-> peak, current_rate |-> cur, usage_csv |-> csv]

R_005 == BigDecimal(5, 2)
R_010 == BigDecimal(10, 2)
R_020 == BigDecimal(20, 2)

\* What Ttmbuwyntcstr::parse() delivers to main: the group of TouRateInfo is
\* required, tou_location conflicts with the group tou_rates, and the three
\* rates are members of tou_rates, which admits one argument: a location
\* and no rate, or one rate and no location.
CommandLines(csv) ==
    {Args("Seattle", None, None, None, R_010, csv),
     Args(NoLocation, Some(R_005), None, None, R_010, csv),
     Args(NoLocation, None, Some(R_010), None, R_010, csv),
     Args(NoLocation, None, None, Some(R_020), R_010, csv)}

\* ------------------------------------------------------------------ main

VARIABLES
    pc,            \* the statement of main (or of the called function) to run next
    args,          \* the parsed command line
    tou_rates,     \* main's tou_rates
    usage_data,    \* main's usage_data
    total_kwh,     \* main's total_kwh
    current_cost,  \* main's current_cost
    tou_cost,      \* main's tou_cost
    output,        \* the lines printed so far, by kind
    panic,         \* the panic that ended the run, NoPanic while there is none
    time,          \* the time given to the classifier
    tou            \* the classifier's answer

vars == <<pc, args, tou_rates, usage_data, total_kwh, current_cost, tou_cost,
          output, panic, time, tou>>

NoArgs == Args(NoLocation, None, None, None, BD_Zero, NoFile)

Init ==
    /\ pc = "from_args"
    /\ \E k \in 0..MaxLines : \E csv \in UsageFiles(k) :
          args \in CommandLines(csv)
    /\ tou_rates = NoRates
    /\ usage_data = <<>>
    /\ total_kwh = BD_Zero
    /\ current_cost = BD_Zero
    /\ tou_cost = BD_Zero
    /\ output = <<>>
    /\ panic = NoPanic
    /\ time = Time(0, 0, 0)
    /\ tou = "none"

\* let tou_rates = TouRates::from_args(&args);
M_FromArgs ==
    /\ pc = "from_args"
    /\ LET r == from_args(args)
       IN  /\ panic' = r.panic
           /\ tou_rates' = r.rates
           /\ pc' = IF r.panic = NoPanic THEN "read_usage_data" ELSE "panicked"
    /\ UNCHANGED <<args, usage_data, total_kwh, current_cost, tou_cost, output,
                   time, tou>>

\* let usage_data = read_usage_data(&args.usage_csv);
M_ReadUsageData ==
    /\ pc = "read_usage_data"
    /\ LET r == read_usage_data(args.usage_csv)
       IN  /\ panic' = r.panic
           /\ usage_data' = r.entries
           /\ pc' = IF r.panic = NoPanic THEN "print_count" ELSE "panicked"
    /\ UNCHANGED <<args, tou_rates, total_kwh, current_cost, tou_cost, output,
                   time, tou>>

\* eprintln!("Found {} usage entries", usage_data.len());
M_PrintCount ==
    /\ pc = "print_count"
    /\ output' = Append(output, "Found usage entries")
    /\ pc' = "total_kwh"
    /\ UNCHANGED <<args, tou_rates, usage_data, total_kwh, current_cost,
                   tou_cost, panic, time, tou>>

\* let total_kwh = ...sum(); eprintln!("Total KWH used: {:.2}", total_kwh);
M_TotalKwh ==
    /\ pc = "total_kwh"
    /\ total_kwh' = sum_kwh(usage_data)
    /\ output' = Append(output, "Total KWH used")
    /\ pc' = "current_cost"
    /\ UNCHANGED <<args, tou_rates, usage_data, current_cost, tou_cost, panic,
                   time, tou>>

\* let current_cost = calculate_base_cost(..); eprintln!("Current cost: ...");
M_CurrentCost ==
    /\ pc = "current_cost"
    /\ current_cost' = calculate_base_cost(args.current_rate, usage_data)
    /\ output' = Append(output, "Current cost")
    /\ pc' = "tou_cost"
    /\ UNCHANGED <<args, tou_rates, usage_data, total_kwh, tou_cost, panic,
                   time, tou>>

\* The statement carrying on after a panic of calculate_tou_cost.
M_TouCost_carrying_on ==
    /\ pc = "tou_cost"
    /\ LET r == calculate_tou_cost(tou_rates, usage_data)
       IN  /\ panic' = r.panic
           /\ tou_cost' = r.value
           /\ output' = Append(output, "TOU cost")
           /\ pc' = "compare"
    /\ UNCHANGED <<args, tou_rates, usage_data, total_kwh, current_cost,
                   time, tou>>

\* let tou_cost = calculate_tou_cost(..); eprintln!("TOU cost: ...");
M_TouCost ==
    /\ pc = "tou_cost"
    /\ LET r == calculate_tou_cost(tou_rates, usage_data)
       IN  /\ panic' = r.panic
           /\ tou_cost' = IF r.panic = NoPanic THEN r.value ELSE tou_cost
           /\ output' = IF r.panic = NoPanic THEN Append(output, "TOU cost")
                        ELSE output
           /\ pc' = IF r.panic = NoPanic THEN "compare" ELSE "panicked"
    /\ UNCHANGED <<args, tou_rates, usage_data, total_kwh, current_cost,
                   time, tou>>

\* The message main prints for the two costs.
comparison(tc, cc) ==
    IF BD_Cmp(tc, cc) < 0 THEN "You would save"
    ELSE IF BD_Cmp(tc, cc) > 0 THEN "You would pay more"
    ELSE "You would pay the same"

\* if tou_cost < current_cost { .. } else if tou_cost > current_cost { .. } else { .. }
M_Compare ==
    /\ pc = "compare"
    /\ output' = Append(output, comparison(tou_cost, current_cost))
    /\ pc' = "done"
    /\ UNCHANGED <<args, tou_rates, usage_data, total_kwh, current_cost,
                   tou_cost, panic, time, tou>>

Next ==
    \/ M_FromArgs
    \/ M_ReadUsageData
    \/ M_PrintCount
    \/ M_TotalKwh
    \/ M_CurrentCost
    \/ M_TouCost
    \/ M_Compare

Spec == Init /\ [][Next]_vars

\* ------------------------------------------- the classifier on its own

HourSlack == 2

\* The hour as the match sees it (an i8): the hours of a day and, for the
\* last arm, HourSlack values on either side.
HourInputs == (0 - HourSlack)..(23 + HourSlack)

\* Any minute and second go with the hour.
TimeInputs ==
    {Time(h, m, sec) : h \in HourInputs, m \in {0, 30, 59}, sec \in {0, 59}}

InitClassify ==
    /\ pc = "from_time"
    /\ time \in TimeInputs
    /\ tou = "none"
    /\ args = NoArgs
    /\ tou_rates = NoRates
    /\ usage_data = <<>>
    /\ total_kwh = BD_Zero
    /\ current_cost = BD_Zero
    /\ tou_cost = BD_Zero
    /\ output = <<>>
    /\ panic = NoPanic

\* TimeOfUse::from_time(time)
Classify ==
    /\ pc = "from_time"
    /\ tou' = from_time(time)
    /\ pc' = IF tou' = "Panic" THEN "panicked" ELSE "returned"
    /\ panic' = IF tou' = "Panic" THEN "Invalid hour" ELSE NoPanic
    /\ UNCHANGED <<args, tou_rates, usage_data, total_kwh, current_cost,
                   tou_cost, output, time>>

NextClassify == Classify

SpecClassify == InitClassify /\ [][NextClassify]_vars

\* -------------------------------------- calculate_tou_cost on any entries

EntryPool ==
    {UsageEntry(Time(2, 0, 0), Time(3, 0, 0), BigDecimal(5, 1), BigDecimal(2, 0)),
     UsageEntry(Time(10, 0, 0), Time(10, 30, 0), BigDecimal(1500, 3), BigDecimal(0, 3)),
     UsageEntry(Time(21, 15, 30), Time(21, 45, 30), BigDecimal(75, 2), BigDecimal(0, 0)),
     UsageEntry(Time(18, 0, 0), Time(18, 30, 0), BigDecimal(2, 0), BigDecimal(25, 2)),
     UsageEntry(Time(16, 30, 0), Time(17, 0, 0), BigDecimal(2, 0), BigDecimal(0, 0)),
     UsageEntry(Time(5, 45, 0), Time(6, 15, 0), BigDecimal(1, 0), BigDecimal(3, 0))}

RatePool ==
    {LocationRates("Tukwila"), TouRates(R_005, R_010, R_020)}

\* main just before its call of calculate_tou_cost, for any rates and entries.
InitTou ==
    /\ pc = "tou_cost"
    /\ tou_rates \in RatePool
    /\ usage_data \in SeqsUpTo(EntryPool, MaxEntries)
    /\ args = Args("Tukwila", None, None, None, R_010, TextFile(<<>>))
    /\ total_kwh = sum_kwh(usage_data)
    /\ current_cost = calculate_base_cost(args.current_rate, usage_data)
    /\ tou_cost = BD_Zero
    /\ output = <<"Found usage entries", "Total KWH used", "Current cost">>
    /\ panic = NoPanic
    /\ time = Time(0, 0, 0)
    /\ tou = "none"

NextTou == M_TouCost

SpecTou == InitTou /\ [][NextTou]_vars

\* ----------------------------------- TouRates::from_args on any arguments

ArgsPool ==
    {Args(loc, off, mid, peak, R_010, NoFile) :
        loc \in TouLocation \cup {NoLocation},
        off \in {None, Some(R_005), Some(BigDecimal(828, 4))},
        mid \in {None, Some(R_010)},
        peak \in {None, Some(R_020)}}

InitFromArgs ==
    /\ pc = "from_args"
    /\ args \in ArgsPool
    /\ tou_rates = NoRates
    /\ usage_data = <<>>
    /\ total_kwh = BD_Zero
    /\ current_cost = BD_Zero
    /\ tou_cost = BD_Zero
    /\ output = <<>>
    /\ panic = NoPanic
    /\ time = Time(0, 0, 0)
    /\ tou = "none"

NextFromArgs == M_FromArgs

SpecFromArgs == InitFromArgs /\ [][NextFromArgs]_vars

\* ------------------------------------------------------------ the claims

StraddlePanic == "Start and end times must be in the same TOU period"

RatePanics ==
    {"off-peak rate is required", "mid-peak rate is required",
     "peak rate is required"}

RowPanics ==
    {IndexPanic, "Invalid start time format", "Invalid end time format",
     "Invalid imported kWh value", "Invalid exported kWh value"}

IngestionPanics ==
    RowPanics \cup {"Usage file not found", "Failed to read line",
                    "Usage file is empty or malformed", "CSV headers not found",
                    "Unexpected headers in usage CSV", DeserializePanic}

PrintedBeforeTou == <<"Found usage entries", "Total KWH used", "Current cost">>

\* The table of the classifier's contract.
BucketOfHour(h) ==
    CASE h \in 0..5 -> "Off"
      [] h \in (6..16) \cup (21..23) -> "Mid"
      [] h \in 17..20 -> "Peak"
      [] OTHER -> "Fails"

(* C1: from_time classifies by the hour alone: Off for 0..5, Mid for 6..16  *)
(* and 21..23, Peak for 17..20, whatever the minute and second, and for an  *)
(* hour outside 0..23 it fails and returns no bucket.                       *)
C1_ClassifiesByHour ==
    pc # "from_time" =>
        IF time.hour \in 0..23
        THEN /\ pc = "returned"
             /\ tou \in TimeOfUse
             /\ tou = BucketOfHour(time.hour)
             /\ panic = NoPanic
        ELSE /\ pc = "panicked"
             /\ tou \notin TimeOfUse
             /\ panic # NoPanic

C1_Witness ==
    pc = "returned" /\ time.hour = 16 /\ time.minute = 59 /\ tou = "Mid"

Straddles(e) == BucketOfHour(e.start_time.hour) # BucketOfHour(e.end_time.hour)

SomeStraddles(entries) == \E i \in 1..Len(entries) : Straddles(entries[i])

(* C2: calculate_tou_cost fails with the consistency error exactly when     *)
(* some entry's start and end are in different buckets, then returns no     *)
(* total, and it succeeds whenever no entry straddles.                      *)
C2_FailsIffStraddling ==
    pc # "tou_cost" =>
        /\ SomeStraddles(usage_data) <=> (pc = "panicked" /\ panic = StraddlePanic)
        /\ ~SomeStraddles(usage_data) <=> (pc = "compare" /\ panic = NoPanic)
        /\ pc = "panicked" => tou_cost = BD_Zero /\ output = PrintedBeforeTou

C2_Witness ==
    /\ pc = "panicked"
    /\ Len(usage_data) = 3
    /\ ~Straddles(usage_data[1]) /\ ~Straddles(usage_data[2])
    /\ usage_data[3].start_time.hour = 16 /\ usage_data[3].end_time.hour = 17

NetKwh(e) == BD_Sub(e.imported, e.exported)

\* The sum of the net kWh of the first n entries whose start and end are
\* both in bucket b, taken from the last entry to the first.
RECURSIVE BucketKwh(_, _, _)
BucketKwh(entries, b, n) ==
    IF n = 0 THEN BD_Zero
    ELSE IF /\ BucketOfHour(entries[n].start_time.hour) = b
            /\ BucketOfHour(entries[n].end_time.hour) = b
         THEN BD_Add(NetKwh(entries[n]), BucketKwh(entries, b, n - 1))
         ELSE BucketKwh(entries, b, n - 1)

BucketTotal(rate, entries) ==
    BD_Add(BD_Mul(rate.off, BucketKwh(entries, "Off", Len(entries))),
           BD_Add(BD_Mul(rate.mid, BucketKwh(entries, "Mid", Len(entries))),
                  BD_Mul(rate.peak, BucketKwh(entries, "Peak", Len(entries)))))

IndexPermutations(n) ==
    {f \in [1..n -> 1..n] : \A i, j \in 1..n : i # j => f[i] # f[j]}

Permuted(entries, f) == [i \in 1..Len(entries) |-> entries[f[i]]]

(* C3: when no entry straddles, calculate_tou_cost returns exactly          *)
(* off*S_off + mid*S_mid + peak*S_peak, S_b the sum of imported - exported  *)
(* over the entries of bucket b, and the entries in any other order give    *)
(* the same total.                                                          *)
C3_BucketSums ==
    (pc # "tou_cost" /\ ~SomeStraddles(usage_data)) =>
        /\ pc = "compare"
        /\ BD_Eq(tou_cost, BucketTotal(tou_rates, usage_data))
        /\ \A f \in IndexPermutations(Len(usage_data)) :
              LET r == calculate_tou_cost(tou_rates, Permuted(usage_data, f))
              IN  r.panic = NoPanic /\ BD_Eq(r.value, tou_cost)

C3_Witness ==
    /\ pc = "compare"
    /\ Len(usage_data) = 3
    /\ BucketOfHour(usage_data[1].start_time.hour) = "Peak"
    /\ BucketOfHour(usage_data[2].start_time.hour) = "Off"
    /\ BD_IsNegative(NetKwh(usage_data[2]))
    /\ BucketOfHour(usage_data[3].start_time.hour) = "Mid"
    /\ ~BD_Eq(tou_cost, BD_Zero)

\* main has run its call of read_usage_data.
ReadRan ==
    /\ pc \notin {"from_args", "read_usage_data"}
    /\ panic \notin RatePanics

FileLines == args.usage_csv.lines

HasHeaderPrefix(line) ==
    /\ Len(line) >= Len(HEADER_PREFIX)
    /\ \A k \in 1..Len(HEADER_PREFIX) : line[k] = HEADER_PREFIX[k]

PrefixLines == {i \in 1..Len(FileLines) : HasHeaderPrefix(FileLines[i])}

FirstPrefixLine == CHOOSE i \in PrefixLines : \A j \in PrefixLines : i <= j

\* The line is a row whose first column is the sentinel.
IsUsageRow(line) ==
    line = ELECTRIC_USAGE \/ StartsWith(line, ELECTRIC_USAGE \o <<",">>)

\* The usage rows of the pool that cannot be parsed into an entry.
UnparseableRows == {LineBadImport, LineShort}

RowsAfter(h) == (h + 1)..Len(FileLines)

\* The scan read every line up to the first one with the prefix.
HeaderLocated ==
    /\ ReadRan
    /\ args.usage_csv.exists /\ args.usage_csv.readable
    /\ PrefixLines # {}
    /\ \A j \in 1..FirstPrefixLine : ValidUtf8(FileLines[j])

\* The scan read every line and none has the prefix.
EndOfFileReached ==
    /\ ReadRan
    /\ args.usage_csv.exists /\ args.usage_csv.readable
    /\ PrefixLines = {}
    /\ \A j \in 1..Len(FileLines) : ValidUtf8(FileLines[j])

\* The consequences of the first line with the prefix being taken as the
\* header: the scan did not fail, the header check is made on that line,
\* only rows after it can fail as data, and only usage rows after it are
\* entries.
HeaderTaken ==
    /\ panic \notin {"Usage file is empty or malformed", "Failed to read line"}
    /\ panic = "Unexpected headers in usage CSV"
           <=> FileLines[FirstPrefixLine] # LineHeader
    /\ panic \in RowPanics =>
           \E i \in RowsAfter(FirstPrefixLine) : FileLines[i] \in UnparseableRows
    /\ panic = DeserializePanic =>
           \E i \in RowsAfter(FirstPrefixLine) : ~ValidUtf8(FileLines[i])
    /\ panic \notin IngestionPanics =>
           Len(usage_data) =
               Cardinality({i \in RowsAfter(FirstPrefixLine) :
                               IsUsageRow(FileLines[i])})

\* Ingestion ended in a fatal error with no entries and nothing printed.
FatalNoEntries ==
    /\ pc = "panicked"
    /\ panic \in IngestionPanics
    /\ usage_data = <<>>
    /\ output = <<>>

\* The lines the scan has to read: up to the first one with the prefix, all
\* of them when there is none.
ScanEnd == IF PrefixLines = {} THEN Len(FileLines) ELSE FirstPrefixLine

\* The scan cannot read the path, or meets a line that is not UTF-8.
ReadFails ==
    /\ ReadRan
    /\ args.usage_csv.exists
    /\ \/ ~args.usage_csv.readable
       \/ \E j \in 1..ScanEnd : ~ValidUtf8(FileLines[j])

(* C4 as stated: the first line that starts with the header prefix is the   *)
(* header, whatever the lines before it are: they are discarded and never   *)
(* parsed as data, the rows after it are the data, and a file with no such  *)
(* line (an empty one too) ends ingestion in a fatal error with no entries. *)
C4_HeaderScan ==
    (ReadRan /\ args.usage_csv.exists) =>
        /\ PrefixLines = {} => FatalNoEntries
        /\ PrefixLines # {} => HeaderTaken

(* C4 amended: when every line up to it is valid UTF-8 text, the first line *)
(* that starts with the header prefix is the header: the lines before it    *)
(* are never parsed as data and the rows after it are the data; when every  *)
(* line is text and none has the prefix (an empty file too), ingestion ends *)
(* in the fatal error "Usage file is empty or malformed" with no entries.   *)
(* A path that cannot be read, or a line that is not UTF-8 at or before the *)
(* first line with the prefix, ends ingestion in the fatal error "Failed to *)
(* read line" with no entries: nothing is discarded and no header is taken. *)
C4_TextHeaderScan ==
    /\ EndOfFileReached =>
          FatalNoEntries /\ panic = "Usage file is empty or malformed"
    /\ HeaderLocated => HeaderTaken
    /\ ReadFails => FatalNoEntries /\ panic = "Failed to read line"

C4_Witness ==
    /\ ReadRan
    /\ FileLines = <<LineBadImport, LineHeader, LineMid>>
    /\ pc = "print_count"
    /\ Len(usage_data) = 1

(* C5: once the header line is located, data rows are read only if its      *)
(* columns are exactly the expected seven in order; any other header is a   *)
(* fatal error with no entries, even when a matching header line follows.   *)
C5_HeaderColumns ==
    HeaderLocated =>
        /\ FileLines[FirstPrefixLine] # LineHeader =>
              /\ pc = "panicked"
              /\ panic = "Unexpected headers in usage CSV"
              /\ usage_data = <<>>
              /\ output = <<>>
        /\ (pc # "panicked"
              \/ panic \in RowPanics \cup {DeserializePanic, StraddlePanic}) =>
              SplitFields(FileLines[FirstPrefixLine]) = EXPECTED_HEADERS

C5_Witness ==
    /\ FileLines = <<LineHeaderSwapped, LineHeader, LineMid>>
    /\ pc = "panicked"
    /\ panic = "Unexpected headers in usage CSV"

(* C6: every entry ingestion produces has imported >= 0 and exported >= 0.  *)
C6_EntriesNonNegative ==
    \A i \in 1..Len(usage_data) :
        /\ ~BD_IsNegative(usage_data[i].imported)
        /\ ~BD_IsNegative(usage_data[i].exported)

RemoveAt(seq, i) == SubSeq(seq, 1, i - 1) \o SubSeq(seq, i + 1, Len(seq))

\* The panic read_usage_data ended in, NoPanic when it returned.
ReadPanic == IF panic \in IngestionPanics THEN panic ELSE NoPanic

\* The outcome of ingestion is that of the file without line i.
SameWithoutRow(i) ==
    LET r == read_usage_data(TextFile(RemoveAt(FileLines, i)))
    IN  r.panic = ReadPanic /\ r.entries = usage_data

(* C7 as stated: after a valid header, a row whose first column is not the  *)
(* sentinel yields no entry and no failure, whatever its fields: the        *)
(* outcome of ingestion is that of the file without the row.                *)
C7_OtherRowsIgnored ==
    (HeaderLocated /\ FileLines[FirstPrefixLine] = LineHeader) =>
        /\ \A i \in RowsAfter(FirstPrefixLine) :
              ~IsUsageRow(FileLines[i]) => SameWithoutRow(i)
        /\ (\A i \in RowsAfter(FirstPrefixLine) : ~IsUsageRow(FileLines[i])) =>
              ReadPanic = NoPanic /\ usage_data = <<>>

(* C7 amended: after a valid header, a row of valid UTF-8 text whose first  *)
(* column is not the sentinel yields no entry and no failure, whatever its  *)
(* fields (unparseable, missing, too few, too many): the outcome is that of *)
(* the file without the row.  A row that is not valid UTF-8 is a fatal      *)
(* error whatever its first column, unless an earlier row failed first.     *)
C7_TextRowsIgnored ==
    (HeaderLocated /\ FileLines[FirstPrefixLine] = LineHeader) =>
        /\ \A i \in RowsAfter(FirstPrefixLine) :
              (~IsUsageRow(FileLines[i]) /\ ValidUtf8(FileLines[i])) =>
                  SameWithoutRow(i)
        /\ (\A i \in RowsAfter(FirstPrefixLine) :
                ~IsUsageRow(FileLines[i]) /\ ValidUtf8(FileLines[i])) =>
              ReadPanic = NoPanic /\ usage_data = <<>>
        /\ (\E i \in RowsAfter(FirstPrefixLine) : ~ValidUtf8(FileLines[i])) =>
              pc = "panicked" /\ panic \in RowPanics \cup {DeserializePanic}

C7_Witness ==
    /\ ReadRan
    /\ FileLines = <<LineHeader, LineOther, LineMid>>
    /\ Len(usage_data) = 1

ComparisonMessages ==
    {"You would save", "You would pay more", "You would pay the same"}

FullReport(o) ==
    /\ Len(o) = 5
    /\ SubSeq(o, 1, 3) = PrintedBeforeTou
    /\ o[4] = "TOU cost"
    /\ o[5] \in ComparisonMessages

(* C8 as stated: a fatal error ends the run at once, nothing runs or is     *)
(* printed after it, a run that ends in failure has reported no result,     *)
(* and only a run without a fatal error prints the five results in order.   *)
C8_NoOutputOnFailure ==
    /\ pc = "panicked" => panic # NoPanic /\ ~ENABLED Next /\ output = <<>>
    /\ panic # NoPanic => pc = "panicked"
    /\ pc = "done" => panic = NoPanic /\ FullReport(output)
    /\ Len(output) = 5 => pc = "done"

(* C8 amended: a fatal error ends the run at once and nothing runs or is    *)
(* printed after it; a run failing in the rate set or in ingestion has      *)
(* printed nothing, a run failing on a straddling interval has printed the  *)
(* entry count, the total kWh and the flat cost and nothing else; only a    *)
(* run without a fatal error prints the five results in order.              *)
C8_FailureStopsRun ==
    /\ pc = "panicked" =>
          /\ panic # NoPanic
          /\ ~ENABLED Next
          /\ output = IF panic = StraddlePanic THEN PrintedBeforeTou ELSE <<>>
    /\ panic # NoPanic => pc = "panicked"
    /\ pc = "done" => panic = NoPanic /\ FullReport(output)
    /\ Len(output) = 5 => pc = "done"

C8_Witness ==
    /\ pc = "panicked"
    /\ panic = StraddlePanic
    /\ output = PrintedBeforeTou

RatesIncomplete(a) ==
    /\ a.tou_location = NoLocation
    /\ ~(a.off_peak_rate.some /\ a.mid_peak_rate.some /\ a.peak_rate.some)

(* C9: from_args yields the location's built-in triple when a location is   *)
(* given, whatever the explicit rates; without a location it yields the     *)
(* three explicit rates when all are present and fails when one is missing. *)
C9_RateSource ==
    pc # "from_args" =>
        IF args.tou_location # NoLocation
        THEN /\ pc = "read_usage_data" /\ panic = NoPanic
             /\ tou_rates = LocationRates(args.tou_location)
        ELSE IF RatesIncomplete(args)
        THEN /\ pc = "panicked" /\ panic \in RatePanics
             /\ tou_rates = NoRates
        ELSE /\ pc = "read_usage_data" /\ panic = NoPanic
             /\ tou_rates = TouRates(args.off_peak_rate.val,
                                     args.mid_peak_rate.val,
                                     args.peak_rate.val)

C9_Witness ==
    /\ pc = "panicked"
    /\ args.tou_location = NoLocation
    /\ args.off_peak_rate.some /\ ~args.mid_peak_rate.some /\ args.peak_rate.some
    /\ panic = "mid-peak rate is required"

(* C10: failures come in the order rate set, ingestion, flat cost, TOU      *)
(* check: an incomplete rate set fails whatever the file, an ingestion      *)
(* failure prints nothing, the straddling failure comes after the flat      *)
(* cost, and a file with a straddling usage row and an unparseable usage    *)
(* row after its header fails in ingestion, whichever row is first.         *)
C10_PhaseOrder ==
    /\ (RatesIncomplete(args) /\ pc # "from_args") =>
          /\ pc = "panicked" /\ panic \in RatePanics
          /\ output = <<>> /\ usage_data = <<>>
    /\ panic \in IngestionPanics => output = <<>> /\ tou_rates # NoRates
    /\ panic = StraddlePanic =>
          /\ output = PrintedBeforeTou
          /\ current_cost = calculate_base_cost(args.current_rate, usage_data)
    /\ (/\ HeaderLocated
        /\ FileLines[FirstPrefixLine] = LineHeader
        /\ \E i \in RowsAfter(FirstPrefixLine) : FileLines[i] = LineStraddle
        /\ \E j \in RowsAfter(FirstPrefixLine) : FileLines[j] \in UnparseableRows) =>
          /\ pc = "panicked" /\ panic \in RowPanics \cup {DeserializePanic}
          /\ output = <<>>

C10_Witness ==
    /\ FileLines = <<LineHeader, LineStraddle, LineBadImport>>
    /\ pc = "panicked"
    /\ panic = "Invalid imported kWh value"
    /\ output = <<>>

====
